---------------------------- MODULE Spec2Model ----------------------------
(***************************************************************************)
(* A model of the MultiCompass driver: the generic compass (calibration    *)
(* bounds, scaling, heading) of MultiCompass.cpp and the HMC5883L device   *)
(* profile (register bit fields, getData) that follows it in the same     *)
(* file, with the bus reads readByte and readTwoBytes both as one step     *)
(* (the peripheral answers every read) and step by step around their wait  *)
(* loops (the peripheral delivers the bytes when it does).                 *)
(*                                                                         *)
(* Numbers.  Raw samples and calibration bounds are floats holding whole   *)
(* numbers (the raw values are decoded int16), modelled as integers.       *)
(* Scaled values are floats modelled as exact fractions <<n, d>> with      *)
(* d >= 0: d = 0 stands for the IEEE results of a division by zero,        *)
(* <<1,0>> = +inf, <<-1,0>> = -inf, <<0,0>> = NaN.  Angles are floats      *)
(* modelled exactly as q quarter turns plus the angle of a direction       *)
(* (x, y) in the first quadrant.  Rounding and the sign of zero are not    *)
(* modelled.                                                               *)
(***************************************************************************)
EXTENDS Integers, FiniteSets, Sequences, TLC

VARIABLES
    settings,       \* MultiCompass::settings (CompassSetting)
    now,            \* the value millis() returns
    regs,           \* the peripheral's registers CONFIG_A, CONFIG_B, MODE
    data,           \* the caller's CompassData
    out,            \* the caller's CompassSetting handed to getCalibration
    calRet,         \* what the last calibration call returned
    regRet,         \* what the last register getter returned
    lastSet,        \* the value each register setter was last called with (-1: never)
    lastOp,         \* the operation that ran last
    args,           \* the arguments of the last call that are not kept elsewhere
    atanHeading,    \* data->heading after line 118, before the declination is added
    calls,          \* calibration calls since construction or the last setCalibration (capped at 2)
    everCalibrated, \* a calibration step has run since construction
    seeded,         \* setCalibration has been called
    callTicks,      \* times the clock moved inside a calibration call (bounded)
    adress,         \* MultiCompass::adress, the bus address the driver uses
    wireLog,        \* the beginTransmission and requestFrom calls made, with their address
    pc,             \* where the driver is inside readByte / readTwoBytes ("idle": in no call)
    call,           \* the bus read in progress or last made: operation, register, LSB flag, axis
    rx,             \* the bytes received and not yet read (what available() counts)
    pending,        \* the requested bytes the peripheral has still to deliver
    outRegs,        \* the peripheral's data output registers 0x03..0x08
    busRet,         \* what the last readByte / readTwoBytes returned
    got,            \* the values read() has returned in the call in progress or last made
    underrun        \* a read() of that call ran with fewer bytes available than it had to consume

vars == <<settings, now, regs, data, out, calRet, regRet, lastSet, lastOp, args,
          atanHeading, calls, everCalibrated, seeded, callTicks,
          adress, wireLog, pc, call, rx, pending, outRegs, busRet, got, underrun>>

regVars == <<regs, regRet, lastSet>>          \* the device profile's registers
dataVars == <<data, out, atanHeading>>        \* the caller's records
calVars == <<settings, now, calRet, calls, everCalibrated, seeded, callTicks>>
wireVars == <<adress, pc, call, rx, pending, outRegs, busRet, got, underrun>>
busVars == <<wireVars, wireLog>>              \* the bus and the driver's place on it

----------------------------------------------------------------------------
(* Bounds of the model *)

MaxCallTicks == 1       \* how often the clock may move inside a calibration call
MaxTime == 2002         \* the clock stops here
MaxDeclQuarters == 4    \* declinations lie within this many quarter turns of 0

----------------------------------------------------------------------------
(* Program constants *)

MinSentinel == 100000               \* settings.minX/Y/Z after construction
MaxSentinel == -100000              \* settings.maxX/Y/Z after construction
calibrationPeriod == 1000           \* MultiCompassHMC5883L::calibrationPeriod

----------------------------------------------------------------------------
(* Float arithmetic, as exact fractions *)

Abs(n) == IF n < 0 THEN -n ELSE n

Sign(n) == IF n < 0 THEN -1 ELSE IF n > 0 THEN 1 ELSE 0

RECURSIVE GCD(_, _)
GCD(a, b) == IF b = 0 THEN a ELSE GCD(b, a % b)

\* the fraction n/d in lowest terms with d >= 0
Norm(n, d) ==
    IF d = 0 THEN <<Sign(n), 0>>
    ELSE LET g == GCD(Abs(n), Abs(d))
         IN  <<(Sign(d) * n) \div g, Abs(d) \div g>>

R(k) == <<k, 1>>
RIsNaN(a) == a = <<0, 0>>
RIsInf(a) == a[2] = 0 /\ a[1] # 0
RAdd(a, b) == Norm(a[1] * b[2] + b[1] * a[2], a[2] * b[2])
RSub(a, b) == Norm(a[1] * b[2] - b[1] * a[2], a[2] * b[2])
RMul(a, b) == Norm(a[1] * b[1], a[2] * b[2])
RDiv(a, b) == IF RIsNaN(a) \/ RIsNaN(b) THEN <<0, 0>>
              ELSE Norm(a[1] * b[2] * (IF b[1] < 0 THEN -1 ELSE 1), a[2] * Abs(b[1]))
RAbs(a) == <<Abs(a[1]), a[2]>>

----------------------------------------------------------------------------
(* Angles: q quarter turns plus the angle of (x, y), x > 0, y >= 0.        *)
(* NaNAngle is the heading atan2f gives for a NaN argument.                *)

Ang(q, x, y) == [q |-> q, x |-> x, y |-> y]
NaNAngle == Ang(0, 0, 0)
AngIsNaN(a) == a.x = 0

\* the angle of the vector (vx, vy), in (-pi, pi]; atan2(0, 0) = 0
VecAngle(vx, vy) ==
    LET g == GCD(Abs(vx), Abs(vy))
        x == IF g = 0 THEN 0 ELSE vx \div g
        y == IF g = 0 THEN 0 ELSE vy \div g
    IN  IF g = 0 THEN Ang(0, 1, 0)
        ELSE IF x > 0 /\ y >= 0 THEN Ang(0, x, y)
        ELSE IF x <= 0 /\ y > 0 THEN Ang(1, y, -x)
        ELSE IF x < 0 /\ y = 0 THEN Ang(2, 1, 0)
        ELSE IF x < 0 /\ y < 0 THEN Ang(-2, -x, -y)
        ELSE Ang(-1, -y, x)

\* atan2f(ay, ax) of two floats
Atan2(ay, ax) ==
    IF RIsNaN(ay) \/ RIsNaN(ax) THEN NaNAngle
    ELSE IF RIsInf(ay) /\ RIsInf(ax) THEN VecAngle(ax[1], ay[1])
    ELSE IF RIsInf(ay) THEN VecAngle(0, ay[1])
    ELSE IF RIsInf(ax) THEN
        (IF ax[1] > 0 THEN Ang(0, 1, 0)
         ELSE IF ay[1] < 0 THEN Ang(-2, 1, 0) ELSE Ang(2, 1, 0))
    ELSE VecAngle(ax[1] * ay[2], ay[1] * ax[2])

\* a + b
AngAdd(a, b) ==
    IF AngIsNaN(a) \/ AngIsNaN(b) THEN NaNAngle
    ELSE LET re == a.x * b.x - a.y * b.y
             im == a.x * b.y + a.y * b.x
             g  == GCD(Abs(re), Abs(im))
         IN  IF re > 0 THEN Ang(a.q + b.q, re \div g, im \div g)
             ELSE Ang(a.q + b.q + 1, im \div g, (-re) \div g)

TwoPi == Ang(4, 1, 0)
AngZero == Ang(0, 1, 0)
AngNeg(a) == ~AngIsNaN(a) /\ a.q < 0                                    \* a < 0
AngGtTwoPi(a) == ~AngIsNaN(a) /\ (a.q > 4 \/ (a.q = 4 /\ a.y > 0))      \* a > 2*PI
AngTurn(a, k) == IF AngIsNaN(a) THEN a ELSE Ang(a.q + 4 * k, a.x, a.y)  \* a + k*2*PI

----------------------------------------------------------------------------
(* The compass: construction *)

Axes == {"X", "Y", "Z"}

Bounds(minX, minY, minZ, maxX, maxY, maxZ) ==
    [minX |-> minX, minY |-> minY, minZ |-> minZ,
     maxX |-> maxX, maxY |-> maxY, maxZ |-> maxZ]

MinOf(s, a) == IF a = "X" THEN s.minX ELSE IF a = "Y" THEN s.minY ELSE s.minZ
MaxOf(s, a) == IF a = "X" THEN s.maxX ELSE IF a = "Y" THEN s.maxY ELSE s.maxZ
RawOf(d, a) == IF a = "X" THEN d.rawX ELSE IF a = "Y" THEN d.rawY ELSE d.rawZ
ScaledOf(d, a) == IF a = "X" THEN d.scaledX ELSE IF a = "Y" THEN d.scaledY ELSE d.scaledZ

\* the constructor leaves settings.lastCalibration unset: zero for an object of
\* static storage, any value otherwise
UnsetTimes == {0, 5}

\* a constructor that zeroes the bounds
ConstructedZero(junk) ==
    [minX |-> 0, minY |-> 0, minZ |-> 0, maxX |-> 0, maxY |-> 0, maxZ |-> 0,
     heading |-> AngZero, lastCalibration |-> junk]

\* MultiCompass::MultiCompass(TwoWire *wire)
Constructed(junk) ==
    [minX |-> MinSentinel, minY |-> MinSentinel, minZ |-> MinSentinel,
     maxX |-> MaxSentinel, maxY |-> MaxSentinel, maxZ |-> MaxSentinel,
     heading |-> AngZero, lastCalibration |-> junk]

\* CompassData data = {}
ZeroData ==
    [rawX |-> 0, rawY |-> 0, rawZ |-> 0,
     scaledX |-> R(0), scaledY |-> R(0), scaledZ |-> R(0), heading |-> AngZero]

\* CompassSetting settings = {}
ZeroSetting ==
    [minX |-> 0, minY |-> 0, minZ |-> 0, maxX |-> 0, maxY |-> 0, maxZ |-> 0,
     heading |-> AngZero, lastCalibration |-> 0]


----------------------------------------------------------------------------
(* The compass: calibration and its settings *)

\* a minimum that follows the sample instead of keeping the smallest
UpdateMinAlways(raw, mn) == raw

\* if (data->rawA < settings.minA) settings.minA = data->rawA;
UpdateMin(raw, mn) == IF raw < mn THEN raw ELSE mn

\* a maximum that is never raised
UpdateMaxNever(raw, mx) == mx

\* if (data->rawA > settings.maxA) settings.maxA = data->rawA;
UpdateMax(raw, mx) == IF raw > mx THEN raw ELSE mx

\* whether the step stamps settings.lastCalibration = millis()
Stamped(raw, s) ==
    \E a \in Axes : RawOf(raw, a) < MinOf(s, a) \/ RawOf(raw, a) > MaxOf(s, a)

\* the comparison with >= in place of >
ConvergedAtPeriod(t, last) == (t - last) >= calibrationPeriod

\* return (millis() - settings.lastCalibration) > calibrationPeriod;
Converged(t, last) == (t - last) > calibrationPeriod

\* a seed stamped with the current time
SeedTimestampNow(t) == t

\* settings.lastCalibration = 0;
SeedTimestamp(t) == 0

Sample(x, y, z) == [rawX |-> x, rawY |-> y, rawZ |-> z]

\* MultiCompassHMC5883L::calibration(data), data->raw* = raw.  millis() is read
\* at each stamp and at the return: the last stamp reads now + e, the return
\* reads now + d.
Calibration(raw, e, d) ==
    /\ e <= d
    /\ now + d <= MaxTime
    /\ callTicks + d <= MaxCallTicks
    /\ LET last == IF Stamped(raw, settings) THEN now + e
                   ELSE settings.lastCalibration
       IN  /\ settings' = [settings EXCEPT
                  !.minX = UpdateMin(raw.rawX, @),
                  !.minY = UpdateMin(raw.rawY, @),
                  !.minZ = UpdateMin(raw.rawZ, @),
                  !.maxX = UpdateMax(raw.rawX, @),
                  !.maxY = UpdateMax(raw.rawY, @),
                  !.maxZ = UpdateMax(raw.rawZ, @),
                  !.lastCalibration = last]
           /\ calRet' = Converged(now + d, last)
    /\ now' = now + d
    /\ callTicks' = callTicks + d
    /\ calls' = IF calls < 2 THEN calls + 1 ELSE 2
    /\ everCalibrated' = TRUE
    /\ lastOp' = "calibration"
    /\ args' = <<>>
    /\ UNCHANGED <<regVars, dataVars, busVars, seeded>>

\* MultiCompass::setCalibration(setting)
SetCalibration(seed) ==
    /\ settings' = [minX |-> seed.minX, minY |-> seed.minY, minZ |-> seed.minZ,
                    maxX |-> seed.maxX, maxY |-> seed.maxY, maxZ |-> seed.maxZ,
                    heading |-> seed.heading,
                    lastCalibration |-> SeedTimestamp(now)]
    /\ calls' = 0
    /\ seeded' = TRUE
    /\ lastOp' = "setCalibration"
    /\ args' = <<>>
    /\ UNCHANGED <<regVars, dataVars, busVars, now, calRet, everCalibrated,
                   callTicks>>

\* MultiCompass::setDeclinationAngle(declinationAngle)
SetDeclinationAngle(angle) ==
    /\ settings' = [settings EXCEPT !.heading = angle]
    /\ lastOp' = "setDeclinationAngle"
    /\ args' = <<>>
    /\ UNCHANGED <<regVars, dataVars, busVars, now, calRet, calls, everCalibrated,
                   seeded, callTicks>>

\* time passes between two calls (the sketch's delay())
Tick(d) ==
    /\ now + d <= MaxTime
    /\ now' = now + d
    /\ lastOp' = "tick"
    /\ args' = <<>>
    /\ UNCHANGED <<regVars, dataVars, busVars, settings, calRet, calls,
                   everCalibrated, seeded, callTicks>>

----------------------------------------------------------------------------
(* The compass: scaling, heading, reading the settings back *)

\* one axis scaled by half the range max - min
ScaleAxisHalfRange(raw, mn, mx) ==
    RDiv(RSub(R(raw), RDiv(RAdd(R(mx), R(mn)), R(2))),
         RDiv(RSub(R(mx), R(mn)), R(2)))

\* data->scaledA = data->rawA - (settings.maxA + settings.minA) / 2;
\* data->scaledA /= (abs(settings.maxA) + abs(settings.minA)) / 2;
ScaleAxis(raw, mn, mx) ==
    RDiv(RSub(R(raw), RDiv(RAdd(R(mx), R(mn)), R(2))),
         RDiv(RAdd(RAbs(R(mx)), RAbs(R(mn))), R(2)))

\* MultiCompass::scaleData(data), data being a fresh CompassData whose raw
\* fields hold raw
ScaleData(raw) ==
    /\ data' = [ZeroData EXCEPT
           !.rawX = raw.rawX, !.rawY = raw.rawY, !.rawZ = raw.rawZ,
           !.scaledX = ScaleAxis(raw.rawX, settings.minX, settings.maxX),
           !.scaledY = ScaleAxis(raw.rawY, settings.minY, settings.maxY),
           !.scaledZ = ScaleAxis(raw.rawZ, settings.minZ, settings.maxZ)]
    /\ atanHeading' = AngZero
    /\ lastOp' = "scaleData"
    /\ args' = <<>>
    /\ UNCHANGED <<regVars, calVars, busVars, out>>

\* the two arguments handed to atan2f in the opposite order
HeadingAxesSwapped(d, x, y, z) ==
    IF x # 0 THEN <<RMul(d.scaledZ, R(x)), RMul(d.scaledY, R(x))>>
    ELSE IF y # 0 THEN <<RMul(d.scaledZ, R(y)), RMul(d.scaledX, R(y))>>
    ELSE IF z # 0 THEN <<RMul(d.scaledY, R(z)), RMul(d.scaledX, R(z))>>
    ELSE <<R(0), R(0)>>

\* <<axis1, axis2>> of calculateHeading
HeadingAxes(d, x, y, z) ==
    IF x # 0 THEN <<RMul(d.scaledY, R(x)), RMul(d.scaledZ, R(x))>>
    ELSE IF y # 0 THEN <<RMul(d.scaledX, R(y)), RMul(d.scaledZ, R(y))>>
    ELSE IF z # 0 THEN <<RMul(d.scaledX, R(z)), RMul(d.scaledY, R(z))>>
    ELSE <<R(0), R(0)>>

\* if (heading < 0) heading += 2 * PI; else if (heading > 2 * PI) heading -= 2 * PI;
Normalize(h) ==
    IF AngNeg(h) THEN AngTurn(h, 1)
    ELSE IF AngGtTwoPi(h) THEN AngTurn(h, -1)
    ELSE h

\* MultiCompass::calculateHeading(data, x, y, z)
CalculateHeading(x, y, z) ==
    LET axes == HeadingAxes(data, x, y, z)
        h    == Atan2(axes[2], axes[1])
    IN  /\ atanHeading' = h
        /\ data' = [data EXCEPT !.heading = Normalize(AngAdd(h, settings.heading))]
        /\ lastOp' = "calculateHeading"
        /\ args' = <<x, y, z>>
        /\ UNCHANGED <<regVars, calVars, busVars, out>>

\* what the bytes of a pointer read as a float may be
PointerBits == {7, 1073}

\* getCalibration(settings): memcpy(settings, &settings, sizeof(settings)) copies
\* the bytes of the pointer itself over the start of the caller's record o:
\* over minX where a pointer is as wide as a float, over minX and minY where it
\* is twice as wide.  The compass's settings are not read.
GetCalibration(o, wide, p1, p2) ==
    /\ out' = [o EXCEPT !.minX = p1, !.minY = IF wide THEN p2 ELSE @]
    /\ lastOp' = "getCalibration"
    /\ args' = <<>>
    /\ UNCHANGED <<regVars, calVars, busVars, data, atanHeading>>

----------------------------------------------------------------------------
(* The device profile: register bit fields.  readByte returns the byte last  *)
(* written to the register (the peripheral answers every read).              *)

HMC5883L_REGISTER_CONFIG_A == 0
HMC5883L_REGISTER_CONFIG_B == 1
HMC5883L_REGISTER_MODE == 2

Registers == {HMC5883L_REGISTER_CONFIG_A, HMC5883L_REGISTER_CONFIG_B,
              HMC5883L_REGISTER_MODE}

HMC5883L_Mode == {0, 1, 2}                  \* CONTINOUS, SINGLE, IDLE
HMC5883L_OutputRate == 0..6                 \* 0.75 Hz .. 75 Hz
HMC5883L_Samples == 0..3                    \* 1, 2, 4, 8
HMC5883L_FieldRange == 0..7                 \* 0.88 Ga .. 8.1 Ga

RECURSIVE BitAnd(_, _)
BitAnd(a, b) ==
    IF a = 0 \/ b = 0 THEN 0
    ELSE (a % 2) * (b % 2) + 2 * BitAnd(a \div 2, b \div 2)

RECURSIVE BitOr(_, _)
BitOr(a, b) ==
    IF a = 0 THEN b ELSE IF b = 0 THEN a
    ELSE (IF a % 2 = 1 \/ b % 2 = 1 THEN 1 ELSE 0) + 2 * BitOr(a \div 2, b \div 2)

Shl(v, k) == v * 2^k
Shr(v, k) == v \div 2^k
U8(v) == v % 256                            \* conversion to uint8_t

\* MultiCompass::readByte(reg)
ReadByte(reg) == regs[reg]

\* MultiCompass::writeByte(reg, value)
WriteByte(reg, value) == regs' = [regs EXCEPT ![reg] = U8(value)]

\* value &= 0b11111100; value |= mode;
ModeField(value, mode) == U8(BitOr(BitAnd(value, 252), mode))

\* a rate field cleared with 0b11100111
RateFieldNarrow(value, samplerate) == U8(BitOr(BitAnd(value, 231), Shl(samplerate, 2)))

\* value &= 0b11100011; value |= (samplerate << 2);
RateField(value, samplerate) == U8(BitOr(BitAnd(value, 227), Shl(samplerate, 2)))

\* value &= 0b10011111; value |= (samples << 5);
SamplesField(value, samples) == U8(BitOr(BitAnd(value, 159), Shl(samples, 5)))

\* value &= 0b00000011;
ModeOf(value) == BitAnd(value, 3)

\* value &= 0b00011100; value >>= 2;
RateOf(value) == Shr(BitAnd(value, 28), 2)

\* (value >> 5) & 0b00000011
RangeOf(value) == BitAnd(Shr(value, 5), 3)

NeverSet == [mode |-> -1, rate |-> -1, samples |-> -1, range |-> -1]

HMC5883L_ADDRESS == 30                      \* (0x1E)

\* the address without the + 1
DeviceAddressBare == HMC5883L_ADDRESS + 0

\* MultiCompassHMC5883L::MultiCompassHMC5883L: adress = HMC5883L_ADDRESS + 1;
DeviceAddress == HMC5883L_ADDRESS + 1

Transmit == <<"beginTransmission", adress>>   \* mywire->beginTransmission(adress)
Request == <<"requestFrom", adress>>          \* mywire->requestFrom(adress, n)

\* the bus calls of a register accessor: every one transmits, and all but
\* setFieldRange (which writes without reading) request a byte
WireCalls(op) == IF op = "setFieldRange" THEN {Transmit} ELSE {Transmit, Request}

RegStep(op) ==
    /\ lastOp' = op
    /\ args' = <<>>
    /\ wireLog' = wireLog \cup WireCalls(op)
    /\ UNCHANGED <<calVars, dataVars, wireVars>>

\* MultiCompassHMC5883L::setMode(mode)
SetMode(mode) ==
    /\ WriteByte(HMC5883L_REGISTER_MODE,
                 ModeField(ReadByte(HMC5883L_REGISTER_MODE), mode))
    /\ lastSet' = [lastSet EXCEPT !.mode = mode]
    /\ RegStep("setMode")
    /\ UNCHANGED regRet

\* MultiCompassHMC5883L::getMode()
GetMode ==
    /\ regRet' = ModeOf(ReadByte(HMC5883L_REGISTER_MODE))
    /\ RegStep("getMode")
    /\ UNCHANGED <<regs, lastSet>>

\* MultiCompassHMC5883L::setFieldRange(range)
SetFieldRange(range) ==
    /\ WriteByte(HMC5883L_REGISTER_CONFIG_B, Shl(range, 5))
    /\ lastSet' = [lastSet EXCEPT !.range = range]
    /\ RegStep("setFieldRange")
    /\ UNCHANGED regRet

\* MultiCompassHMC5883L::getFieldRange()
GetFieldRange ==
    /\ regRet' = RangeOf(ReadByte(HMC5883L_REGISTER_CONFIG_B))
    /\ RegStep("getFieldRange")
    /\ UNCHANGED <<regs, lastSet>>

\* MultiCompassHMC5883L::setOutputRate(samplerate)
SetOutputRate(samplerate) ==
    /\ WriteByte(HMC5883L_REGISTER_CONFIG_A,
                 RateField(ReadByte(HMC5883L_REGISTER_CONFIG_A), samplerate))
    /\ lastSet' = [lastSet EXCEPT !.rate = samplerate]
    /\ RegStep("setOutputRate")
    /\ UNCHANGED regRet

\* MultiCompassHMC5883L::getOutputRate()
GetOutputRate ==
    /\ regRet' = RateOf(ReadByte(HMC5883L_REGISTER_CONFIG_A))
    /\ RegStep("getOutputRate")
    /\ UNCHANGED <<regs, lastSet>>

\* MultiCompassHMC5883L::setAveragedSamples(samples)
SetAveragedSamples(samples) ==
    /\ WriteByte(HMC5883L_REGISTER_CONFIG_A,
                 SamplesField(ReadByte(HMC5883L_REGISTER_CONFIG_A), samples))
    /\ lastSet' = [lastSet EXCEPT !.samples = samples]
    /\ RegStep("setAveragedSamples")
    /\ UNCHANGED regRet

\* register contents the driver may find: the chip's power-on values, all bits
\* clear, all bits set
PowerOnRegs ==
    [r \in Registers |->
        IF r = HMC5883L_REGISTER_CONFIG_A THEN 16
        ELSE IF r = HMC5883L_REGISTER_CONFIG_B THEN 32 ELSE 1]

RegContents == {PowerOnRegs, [r \in Registers |-> 0], [r \in Registers |-> 255]}

----------------------------------------------------------------------------
(* The bus, step by step.  readByte and readTwoBytes wait in a loop for the  *)
(* peripheral, so here a call is several steps: the request, the reads that  *)
(* follow the wait, and between them the peripheral delivering the bytes     *)
(* requested, one at a time, when it does.                                   *)

HMC5883L_REGISTER_OUT_X_M == 3
HMC5883L_REGISTER_OUT_Z_M == 5
HMC5883L_REGISTER_OUT_Y_M == 7

OutRegisters == HMC5883L_REGISTER_OUT_X_M .. (HMC5883L_REGISTER_OUT_Y_M + 1)

\* the register getData reads an axis from
AxisRegister(a) ==
    IF a = "X" THEN HMC5883L_REGISTER_OUT_X_M
    ELSE IF a = "Y" THEN HMC5883L_REGISTER_OUT_Y_M
    ELSE HMC5883L_REGISTER_OUT_Z_M

\* what the peripheral holds in register r
PeripheralByte(r) == IF r \in Registers THEN regs[r] ELSE outRegs[r]

\* conversion to int16_t
ToInt16(v) == LET w == v % 65536 IN IF w >= 32768 THEN w - 65536 ELSE w

\* no wait at all
WaitOverAtOnce(buf) == TRUE

\* while (mywire->available() == 0) { }  /  while (!mywire->available()) { }
WaitOver(buf) == Len(buf) # 0

\* mywire->read() stored in a uint8_t: the next byte received, or -1 when
\* there is none
ReadValue(buf) == IF buf = <<>> THEN U8(-1) ELSE Head(buf)
ReadRest(buf) == IF buf = <<>> THEN buf ELSE Tail(buf)

\* if (LSB) { vha = read(); vla = read(); } else { vla = read(); vha = read(); }
\* value = vha << 8 | vla;   (int16_t value)
Compose(lsb, first, second) ==
    LET vha == IF lsb THEN first ELSE second
        vla == IF lsb THEN second ELSE first
    IN  ToInt16(BitOr(Shl(vha, 8), vla))

NoCall == [op |-> "none", reg |-> 0, lsb |-> FALSE, axis |-> "-"]

SetRaw(d, a, value) ==
    IF a = "X" THEN [d EXCEPT !.rawX = value]
    ELSE IF a = "Y" THEN [d EXCEPT !.rawY = value]
    ELSE [d EXCEPT !.rawZ = value]

\* beginTransmission(adress); write(reg); endTransmission();
\* requestFrom(adress, n): the receive buffer starts empty and the peripheral
\* has the n bytes from register reg on to deliver
StartRead(op, reg, n, lsb, axis) ==
    /\ wireLog' = wireLog \cup {Transmit, Request}
    /\ rx' = <<>>
    /\ pending' = [i \in 1..n |-> PeripheralByte(reg + i - 1)]
    /\ call' = [op |-> op, reg |-> reg, lsb |-> lsb, axis |-> axis]
    /\ pc' = "wait"

\* MultiCompass::readByte(reg), up to the wait
ReadByteCall(reg) ==
    /\ pc = "idle"
    /\ StartRead("readByte", reg, 1, FALSE, "-")
    /\ got' = <<>>
    /\ underrun' = FALSE
    /\ UNCHANGED <<regVars, calVars, dataVars, lastOp, args, adress, outRegs, busRet>>

\* MultiCompass::readByte(reg), from the end of the wait to the return
ReadByteReturn ==
    /\ pc = "wait"
    /\ call.op = "readByte"
    /\ WaitOver(rx)
    /\ busRet' = ReadValue(rx)
    /\ got' = <<ReadValue(rx)>>
    /\ rx' = ReadRest(rx)
    /\ underrun' = (Len(rx) < 1)
    /\ pc' = "idle"
    /\ lastOp' = "readByte"
    /\ args' = <<>>
    /\ UNCHANGED <<regVars, calVars, dataVars, adress, wireLog, call, pending, outRegs>>

\* MultiCompass::writeByte(reg, value), called on its own
WriteByteCall(reg, value) ==
    /\ pc = "idle"
    /\ WriteByte(reg, value)
    /\ wireLog' = wireLog \cup {Transmit}
    /\ lastOp' = "writeByte"
    /\ args' = <<>>
    /\ UNCHANGED <<regRet, lastSet, calVars, dataVars, wireVars>>

\* MultiCompass::readTwoBytes(reg, LSB), up to the wait
ReadTwoBytesCall(reg, lsb) ==
    /\ pc = "idle"
    /\ StartRead("readTwoBytes", reg, 2, lsb, "-")
    /\ got' = <<>>
    /\ underrun' = FALSE
    /\ UNCHANGED <<regVars, calVars, dataVars, lastOp, args, adress, outRegs, busRet>>

\* MultiCompassHMC5883L::getData(data), up to the wait of its first
\* readTwoBytes(HMC5883L_REGISTER_OUT_X_M, true)
GetDataCall ==
    /\ pc = "idle"
    /\ StartRead("getData", HMC5883L_REGISTER_OUT_X_M, 2, TRUE, "X")
    /\ got' = <<>>
    /\ underrun' = FALSE
    /\ UNCHANGED <<regVars, calVars, dataVars, lastOp, args, adress, outRegs, busRet>>

\* readTwoBytes: the end of the wait and the first read()
ReadFirst ==
    /\ pc = "wait"
    /\ call.op \in {"readTwoBytes", "getData"}
    /\ WaitOver(rx)
    /\ got' = <<ReadValue(rx)>>
    /\ rx' = ReadRest(rx)
    /\ underrun' = (underrun \/ Len(rx) < 2)
    /\ pc' = "second"
    /\ UNCHANGED <<regVars, calVars, dataVars, lastOp, args, adress, wireLog, call,
                   pending, outRegs, busRet>>

\* readTwoBytes: the second read() and the return.  Inside getData the value
\* goes to the axis being read and the next readTwoBytes starts: X, then Y
\* from HMC5883L_REGISTER_OUT_Y_M, then Z from HMC5883L_REGISTER_OUT_Z_M.
ReadSecond ==
    /\ pc = "second"
    /\ LET second == ReadValue(rx)
           value  == Compose(call.lsb, got[1], second)
           next   == IF call.axis = "X" THEN "Y" ELSE "Z"
       IN  /\ got' = <<got[1], second>>
           /\ underrun' = (underrun \/ Len(rx) < 1)
           /\ busRet' = value
           /\ IF call.op = "readTwoBytes"
              THEN /\ rx' = ReadRest(rx)
                   /\ pc' = "idle"
                   /\ lastOp' = "readTwoBytes"
                   /\ args' = <<>>
                   /\ UNCHANGED <<data, wireLog, call, pending>>
              ELSE /\ data' = SetRaw(data, call.axis, value)
                   /\ IF call.axis = "Z"
                      THEN /\ rx' = ReadRest(rx)
                           /\ pc' = "idle"
                           /\ lastOp' = "getData"
                           /\ args' = <<>>
                           /\ UNCHANGED <<wireLog, call, pending>>
                      ELSE /\ StartRead("getData", AxisRegister(next), 2, TRUE, next)
                           /\ UNCHANGED <<lastOp, args>>
    /\ UNCHANGED <<regVars, calVars, out, atanHeading, adress, outRegs>>

\* the peripheral delivers the next byte requested
Deliver ==
    /\ pending # <<>>
    /\ rx' = Append(rx, Head(pending))
    /\ pending' = Tail(pending)
    /\ UNCHANGED <<regVars, calVars, dataVars, lastOp, args, adress, wireLog, pc,
                   call, outRegs, busRet, got, underrun>>

\* output registers holding the bytes given, from 0x03 on
OutOf(bytes) == [r \in OutRegisters |-> bytes[r - 2]]

OutAtRest == OutOf(<<0, 0, 0, 0, 0, 0>>)

\* measurements whose six bytes tell the axes and the two bytes of an axis
\* apart, with both signs: X = 0x0102, Z = 0x8003, Y = 0xFFFE, and
\* X = 0x8000, Z = 0x7FFF, Y = 0x00FF
OutContents ==
    { OutOf(<<1, 2, 128, 3, 255, 254>>), OutOf(<<128, 0, 127, 255, 0, 255>>) }

\* the bytes handed to writeByte
WriteValues == {0, 129}

----------------------------------------------------------------------------
(* The calibration runs: inputs *)

\* every sample with each axis at one end, and the sample at rest
RawValues == {-1, 1}
Samples == {Sample(x, y, z) : x \in RawValues, y \in RawValues, z \in RawValues}
               \cup {Sample(0, 0, 0)}

Seed(b, h) == [minX |-> b.minX, minY |-> b.minY, minZ |-> b.minZ,
               maxX |-> b.maxX, maxY |-> b.maxY, maxZ |-> b.maxZ,
               heading |-> h, lastCalibration |-> 0]

\* the sketch's all-zero seed, a seed around zero, a seed with min > max on one
\* axis, and one with min > max on all
CalSeeds ==
    { Seed(Bounds(0, 0, 0, 0, 0, 0), AngZero),
      Seed(Bounds(-1, -1, -1, 1, 1, 1), AngZero),
      Seed(Bounds(1, -1, 0, -1, 1, 0), AngZero),
      Seed(Bounds(1, 1, 1, -1, -1, -1), AngZero) }

CalDeclinations == {AngZero, Ang(1, 1, 0)}

TickSteps == {calibrationPeriod - 1, calibrationPeriod, calibrationPeriod + 1}

\* the state after MultiCompassHMC5883L compass(&wire), the peripheral's
\* registers holding r and its output registers o
InitAll(r, junk, o) ==
    /\ settings = Constructed(junk)
    /\ now = 0
    /\ regs = r
    /\ data = ZeroData
    /\ out = ZeroSetting
    /\ calRet = FALSE
    /\ regRet = 0
    /\ lastSet = NeverSet
    /\ lastOp = "construct"
    /\ args = <<>>
    /\ atanHeading = AngZero
    /\ calls = 0
    /\ everCalibrated = FALSE
    /\ seeded = FALSE
    /\ callTicks = 0
    /\ adress = DeviceAddress
    /\ wireLog = {}
    /\ pc = "idle"
    /\ call = NoCall
    /\ rx = <<>>
    /\ pending = <<>>
    /\ outRegs = o
    /\ busRet = 0
    /\ got = <<>>
    /\ underrun = FALSE

InitWith(r, junk) == InitAll(r, junk, OutAtRest)

InitCal == \E j \in UnsetTimes : InitWith(PowerOnRegs, j)

NextCal ==
    \/ \E raw \in Samples, e \in 0..1, d \in 0..1 : Calibration(raw, e, d)
    \/ \E seed \in CalSeeds : SetCalibration(seed)
    \/ \E a \in CalDeclinations : SetDeclinationAngle(a)
    \/ \E d \in TickSteps : Tick(d)

SpecCal == InitCal /\ [][NextCal]_vars

----------------------------------------------------------------------------
(* Claims about the calibration runs, checked under SpecCal *)

Ordered(s) == \A a \in Axes : MinOf(s, a) <= MaxOf(s, a)

SameBounds(s, t) ==
    \A a \in Axes : MinOf(s, a) = MinOf(t, a) /\ MaxOf(s, a) = MaxOf(t, a)

\* C1: a calibration step never raises an axis's min and never lowers an
\* axis's max.
C1_BoundsMonotonic ==
    [][lastOp' = "calibration" =>
         \A a \in Axes : /\ MinOf(settings', a) <= MinOf(settings, a)
                         /\ MaxOf(settings', a) >= MaxOf(settings, a)]_vars

\* two successive calibration steps have widened the X bounds to both ends
C1_Witness ==
    /\ lastOp = "calibration"
    /\ calls = 2
    /\ ~seeded
    /\ settings.minX = -1
    /\ settings.maxX = 1

\* C2: a calibration call returns true exactly when the clock at its return
\* minus settings.lastCalibration is strictly greater than calibrationPeriod.
C2_ReturnsIffElapsedExceedsPeriod ==
    lastOp = "calibration" =>
        (calRet <=> (now - settings.lastCalibration) > calibrationPeriod)

\* a call exactly calibrationPeriod after a bound update returned false
C2_Witness ==
    /\ lastOp = "calibration"
    /\ settings.lastCalibration > 0
    /\ now - settings.lastCalibration = calibrationPeriod
    /\ ~calRet

\* C3 as stated: the first calibration call after setCalibration returns true
\* whenever the clock is past calibrationPeriod, whatever the sample.
C3_FirstCallAfterSeedComplete ==
    (seeded /\ calls = 1 /\ lastOp = "calibration" /\ now > calibrationPeriod)
        => calRet

\* C3 amended: the first calibration call after setCalibration, with the clock
\* past calibrationPeriod, returns true exactly when its sample lies within
\* the seeded bounds on every axis (no bound changes).
C3_FirstCallAfterSeedInBounds ==
    [][(seeded /\ calls = 0 /\ lastOp' = "calibration" /\ now' > calibrationPeriod)
         => (calRet' <=> SameBounds(settings', settings))]_vars

\* the first call after a seed returned true
C3_Witness ==
    /\ seeded
    /\ calls = 1
    /\ lastOp = "calibration"
    /\ now > calibrationPeriod
    /\ calRet

\* C4 as stated: once a calibration step has run, min <= max on every axis,
\* whatever setCalibration calls follow.
C4_OrderedOnceCalibrated == everCalibrated => Ordered(settings)

\* C4 amended: min <= max on every axis whenever a calibration step has run
\* since the most recent setCalibration (since construction when there was none).
C4_OrderedAfterStep == calls > 0 => Ordered(settings)

\* one calibration step after a seed with min > max on X has restored the order
C4_Witness ==
    /\ seeded
    /\ calls = 1
    /\ lastOp = "calibration"
    /\ settings.minX = 0 /\ settings.maxX = 0
    /\ settings.minY = -1 /\ settings.maxY = 1

----------------------------------------------------------------------------
(* The register runs *)

InitReg == \E r \in RegContents : InitWith(r, 0)

NextReg ==
    \/ \E m \in HMC5883L_Mode : SetMode(m)
    \/ GetMode
    \/ \E r \in HMC5883L_FieldRange : SetFieldRange(r)
    \/ GetFieldRange
    \/ \E r \in HMC5883L_OutputRate : SetOutputRate(r)
    \/ GetOutputRate
    \/ \E n \in HMC5883L_Samples : SetAveragedSamples(n)

SpecReg == InitReg /\ [][NextReg]_vars

----------------------------------------------------------------------------
(* Claims about the register runs, checked under SpecReg *)

ConfigA == regs[HMC5883L_REGISTER_CONFIG_A]
ConfigB == regs[HMC5883L_REGISTER_CONFIG_B]
ModeReg == regs[HMC5883L_REGISTER_MODE]

\* what the getters return and what CONFIG_A holds
C5_ReadBack ==
    /\ (lastOp = "getOutputRate" /\ lastSet.rate # -1) => regRet = lastSet.rate
    /\ (lastOp = "getMode" /\ lastSet.mode # -1) => regRet = lastSet.mode
    /\ lastSet.samples # -1 => (ConfigA \div 32) % 4 = lastSet.samples

\* what a setter leaves alone: the other registers and, in its own register,
\* the bits outside its field
C5_OwnFieldOnly ==
    /\ lastOp' = "setMode" =>
         /\ ConfigA' = ConfigA /\ ConfigB' = ConfigB
         /\ ModeReg' \div 4 = ModeReg \div 4
    /\ lastOp' = "setOutputRate" =>
         /\ ConfigB' = ConfigB /\ ModeReg' = ModeReg
         /\ ConfigA' % 4 = ConfigA % 4
         /\ ConfigA' \div 32 = ConfigA \div 32
    /\ lastOp' = "setAveragedSamples" =>
         /\ ConfigB' = ConfigB /\ ModeReg' = ModeReg
         /\ ConfigA' % 32 = ConfigA % 32
         /\ ConfigA' \div 128 = ConfigA \div 128

\* C5: after any sequence of setMode, setOutputRate and setAveragedSamples,
\* getOutputRate returns the last rate set, getMode the last mode set, bits 5-6
\* of CONFIG_A hold the last samples value set, and each setter changes only
\* its own bit field.
C5_RegisterFields == []C5_ReadBack /\ [][C5_OwnFieldOnly]_vars

\* all three fields were set on registers that started with every bit set, and
\* getOutputRate returned the rate
C5_Witness ==
    /\ lastOp = "getOutputRate"
    /\ lastSet.rate = 5 /\ lastSet.mode = 2 /\ lastSet.samples = 1
    /\ regRet = 5
    /\ ConfigA = 128 + 32 + 20 + 3
    /\ ModeReg = 254

\* C6: getFieldRange returns the range last given to setFieldRange, for each
\* of the 8 ranges.
C6_FieldRangeRoundTrip ==
    (lastOp = "getFieldRange" /\ lastSet.range # -1) => regRet = lastSet.range

----------------------------------------------------------------------------
(* The scaling and heading runs *)

\* bounds symmetric about zero, the sketch's all-zero seed, and bounds that
\* differ from axis to axis
DataSeeds ==
    { Seed(Bounds(-500, -500, -500, 500, 500, 500), AngZero),
      Seed(Bounds(0, 0, 0, 0, 0, 0), AngZero),
      Seed(Bounds(2, -3, -500, 4, 1, 500), AngZero) }

DataRaws ==
    { Sample(250, -250, 0), Sample(-250, 0, 250), Sample(0, 0, 0),
      Sample(3, -1, -250), Sample(0, 250, 250) }

\* one weight set, positive or negative, of magnitude 1 or more; several set
HeadingWeights ==
    { <<0, 0, 1>>, <<0, 1, 0>>, <<1, 0, 0>>, <<0, 0, -1>>, <<0, -2, 0>>,
      <<-1, 0, 0>>, <<3, 0, 0>>, <<0, 2, 1>>, <<1, -1, 1>>, <<0, 0, 0>> }

\* whole quarter turns, and one angle between two of them
Declinations ==
    {Ang(q, 1, 0) : q \in -MaxDeclQuarters..MaxDeclQuarters} \cup {Ang(0, 1, 1)}

InitData == InitWith(PowerOnRegs, 0)

NextData ==
    \/ \E seed \in DataSeeds : SetCalibration(seed)
    \/ \E a \in Declinations : SetDeclinationAngle(a)
    \/ \E raw \in DataRaws : ScaleData(raw)
    \/ \E w \in HeadingWeights : CalculateHeading(w[1], w[2], w[3])

SpecData == InitData /\ [][NextData]_vars

----------------------------------------------------------------------------
(* The read-back runs *)

NextGet ==
    \/ \E seed \in CalSeeds : SetCalibration(seed)
    \/ \E raw \in Samples : Calibration(raw, 0, 0)
    \/ \E wide \in BOOLEAN, p1 \in PointerBits, p2 \in PointerBits :
           GetCalibration(ZeroSetting, wide, p1, p2)

SpecGet == InitCal /\ [][NextGet]_vars

----------------------------------------------------------------------------
(* Claims about reading the settings back, checked under SpecGet *)

\* C7: after setCalibration and any number of calibration steps,
\* getCalibration(out) leaves in out the six bounds and the declination the
\* compass holds.
C7_ReadsBackSettings ==
    (seeded /\ lastOp = "getCalibration") =>
        /\ SameBounds(out, settings)
        /\ out.heading = settings.heading

----------------------------------------------------------------------------
(* Claims about scaling and heading, checked under SpecData *)

\* the angle the claim names for the weights of the last call, the scaled
\* values taken as they are
ClaimedAngle ==
    IF args[1] # 0 THEN Atan2(data.scaledZ, data.scaledY)
    ELSE IF args[2] # 0 THEN Atan2(data.scaledZ, data.scaledX)
    ELSE Atan2(data.scaledY, data.scaledX)

\* the same with both scaled values negated
OppositeAngle ==
    IF args[1] # 0 THEN Atan2(RMul(data.scaledZ, R(-1)), RMul(data.scaledY, R(-1)))
    ELSE IF args[2] # 0 THEN Atan2(RMul(data.scaledZ, R(-1)), RMul(data.scaledX, R(-1)))
    ELSE Atan2(RMul(data.scaledY, R(-1)), RMul(data.scaledX, R(-1)))

\* the first nonzero weight, x before y before z
SelectingWeight ==
    IF args[1] # 0 THEN args[1] ELSE IF args[2] # 0 THEN args[2] ELSE args[3]

\* C8 as stated: for weights of either sign, not all zero, the angle before
\* the declination is added is atan2(scaledZ, scaledY) if x # 0, else
\* atan2(scaledZ, scaledX) if y # 0, else atan2(scaledY, scaledX).
C8_AngleWhateverTheSign ==
    (lastOp = "calculateHeading" /\ args # <<0, 0, 0>>) =>
        atanHeading = ClaimedAngle

\* C8 amended: that angle is computed when the selecting weight (the first
\* nonzero one) is positive, whatever its magnitude; when it is negative both
\* arguments of atan2 are negated.
C8_AngleBySignOfWeight ==
    (lastOp = "calculateHeading" /\ args # <<0, 0, 0>>) =>
        atanHeading = (IF SelectingWeight > 0 THEN ClaimedAngle ELSE OppositeAngle)

\* y selected with weight 2 while z is set too, on scaled values that point
\* somewhere off the axes
C8_Witness ==
    /\ lastOp = "calculateHeading"
    /\ args = <<0, 2, 1>>
    /\ atanHeading = ClaimedAngle
    /\ atanHeading.y # 0
    /\ Atan2(data.scaledZ, data.scaledX) # Atan2(data.scaledY, data.scaledX)

\* the sum of the atan2 result and the declination the last call normalized
HeadingSum == AngAdd(atanHeading, settings.heading)

\* C9: when that sum lies in [-2*PI, 4*PI) the stored heading lies in
\* [0, 2*PI); a sum of exactly 2*PI gives 0.
C9_HeadingInRange ==
    (/\ lastOp = "calculateHeading"
     /\ ~AngIsNaN(HeadingSum)
     /\ HeadingSum.q >= -4 /\ HeadingSum.q < 8) =>
        /\ data.heading.q >= 0 /\ data.heading.q < 4
        /\ HeadingSum = TwoPi => data.heading = AngZero

\* C10: on every axis whose |max| + |min| is not zero, scaleData sets
\* scaled = (raw - (max+min)/2) / ((|max|+|min|)/2) from that axis's raw value
\* and bounds; bounds -500..500 and raw (250, -250, 0) give (1/2, -1/2, 0).
C10_ScaledByHalfAbsSum ==
    lastOp = "scaleData" =>
        /\ \A a \in Axes :
             LET mn == MinOf(settings, a)
                 mx == MaxOf(settings, a)
                 sc == ScaledOf(data, a)
             IN  Abs(mx) + Abs(mn) # 0 =>
                    /\ sc[2] > 0
                    /\ sc[1] * (Abs(mx) + Abs(mn)) = sc[2] * (2 * RawOf(data, a) - mx - mn)
        /\ (/\ SameBounds(settings, Bounds(-500, -500, -500, 500, 500, 500))
            /\ data.rawX = 250 /\ data.rawY = -250 /\ data.rawZ = 0) =>
               /\ data.scaledX = <<1, 2>>
               /\ data.scaledY = <<-1, 2>>
               /\ data.scaledZ = <<0, 1>>

\* a sample scaled with bounds that differ from axis to axis and are not
\* symmetric about zero
C10_Witness ==
    /\ lastOp = "scaleData"
    /\ SameBounds(settings, Bounds(2, -3, -500, 4, 1, 500))
    /\ data.rawX = 3 /\ data.rawY = -1 /\ data.rawZ = -250
    /\ data.scaledX = <<0, 1>>
    /\ data.scaledY = <<0, 1>>
    /\ data.scaledZ = <<-1, 2>>

\* the example of the claim
C10_Example ==
    /\ lastOp = "scaleData"
    /\ SameBounds(settings, Bounds(-500, -500, -500, 500, 500, 500))
    /\ data.rawX = 250 /\ data.rawY = -250 /\ data.rawZ = 0
    /\ data.scaledX = <<1, 2>>

\* the device as constructed: no calibration step and no setCalibration yet
Untouched == ~everCalibrated /\ ~seeded

\* C11 as stated: while no calibration step has run since construction all
\* six bounds are zero, and scaleData divides by zero on every axis.
C11_ZeroBoundsUntilCalibrated ==
    ~everCalibrated =>
        /\ SameBounds(settings, Bounds(0, 0, 0, 0, 0, 0))
        /\ lastOp = "scaleData" => \A a \in Axes : ScaledOf(data, a)[2] = 0

\* C11 amended: on a device on which neither a calibration step nor
\* setCalibration has run since construction the bounds are the constructor's
\* sentinels, min = 100000 and max = -100000, so scaleData's divisor is 100000
\* on every axis and scaled = raw / 100000; scaleData divides by zero on an
\* axis exactly when both bounds of that axis are zero, as after the all-zero
\* seed.
C11_SentinelDivisor ==
    /\ Untouched => SameBounds(settings, Bounds(100000, 100000, 100000,
                                                -100000, -100000, -100000))
    /\ lastOp = "scaleData" =>
          \A a \in Axes :
              LET sc == ScaledOf(data, a)
              IN  /\ sc[2] = 0 <=> (MinOf(settings, a) = 0 /\ MaxOf(settings, a) = 0)
                  /\ Untouched =>
                        (sc[2] > 0 /\ sc[1] * 100000 = sc[2] * RawOf(data, a))

\* a sample scaled on the device as constructed
C11_Witness ==
    /\ lastOp = "scaleData"
    /\ Untouched
    /\ data.rawX = 250 /\ data.rawY = -250 /\ data.rawZ = 0
    /\ data.scaledX = <<1, 400>>
    /\ data.scaledY = <<-1, 400>>
    /\ data.scaledZ = <<0, 1>>

----------------------------------------------------------------------------
(* The bus runs *)

InitBus == \E o \in OutContents : InitAll(PowerOnRegs, 0, o)

NextBus ==
    \/ \E reg \in Registers : ReadByteCall(reg)
    \/ ReadByteReturn
    \/ \E reg \in Registers, value \in WriteValues : WriteByteCall(reg, value)
    \/ \E a \in Axes, lsb \in BOOLEAN : ReadTwoBytesCall(AxisRegister(a), lsb)
    \/ GetDataCall
    \/ ReadFirst
    \/ ReadSecond
    \/ Deliver

SpecBus == InitBus /\ [][NextBus]_vars

\* the runs of readByte and writeByte alone, with a driver that keeps running:
\* once the wait of readByte can end, it does.  Nothing makes the peripheral
\* deliver.
NextByte ==
    \/ \E reg \in Registers : ReadByteCall(reg)
    \/ ReadByteReturn
    \/ \E reg \in Registers, value \in WriteValues : WriteByteCall(reg, value)
    \/ Deliver

SpecByte == InitBus /\ [][NextByte]_vars /\ WF_vars(ReadByteReturn)

----------------------------------------------------------------------------
(* Claims about the bus runs, checked under SpecBus and SpecByte *)

\* C12: every beginTransmission and every requestFrom the driver issues
\* targets the address HMC5883L_ADDRESS + 1 = 0x1F = 31, and no operation
\* changes the driver's address after construction.
C12_AddressFixed ==
    /\ [](adress = 31 /\ \A c \in wireLog : c[2] = 31)
    /\ [][adress' = adress]_vars

\* a getData has run to its end after a writeByte: both kinds of bus call
\* were issued
C12_Witness ==
    /\ lastOp = "getData"
    /\ pc = "idle"
    /\ regs[HMC5883L_REGISTER_MODE] = 129
    /\ wireLog = {<<"beginTransmission", 31>>, <<"requestFrom", 31>>}

\* the signed 16-bit value of the register pair starting at r, the first
\* register the high byte
Pair(r) ==
    LET v == outRegs[r] * 256 + outRegs[r + 1]
    IN  IF v >= 32768 THEN v - 65536 ELSE v

\* a getData call has returned and nothing was called since
GetDataDone == lastOp = "getData" /\ pc = "idle"

RawFromOwnPair ==
    /\ data.rawX = Pair(3)
    /\ data.rawZ = Pair(5)
    /\ data.rawY = Pair(7)

\* C13: getData sets rawX, rawZ and rawY to the signed 16-bit values of the
\* register pairs starting at 0x03, 0x05 and 0x07, the first byte received
\* the high byte and the second the low byte.
C13_AxesFromTheirRegisters == GetDataDone => RawFromOwnPair

\* the same for the calls in which every read() found its bytes received
C13_WhenNoReadRanShort == (GetDataDone /\ ~underrun) => RawFromOwnPair

\* a getData whose reads all found their bytes received
C13_Example == GetDataDone /\ ~underrun /\ data.rawX = 258 /\ data.rawZ = -32765

\* the driver is in the wait loop of readByte
Waiting == pc = "wait" /\ call.op = "readByte"

\* a readByte call has returned and nothing was called since
ReadByteDone == lastOp = "readByte" /\ pc = "idle"

\* C14: readByte reads and returns only after a byte is available following
\* its 1-byte request, and then returns that byte; while none is available it
\* stays in its wait, whatever else happens, for ever if the peripheral never
\* delivers; once a byte is available it returns it.
C14_ReturnsOnceAvailable ==
    /\ [][(Waiting /\ pc' = "idle") =>
             /\ Len(rx) >= 1
             /\ busRet' = Head(rx)
             /\ busRet' = PeripheralByte(call.reg)]_vars
    /\ [][(Waiting /\ rx = <<>>) => Waiting']_vars
    /\ (Waiting /\ rx # <<>>) ~> (ReadByteDone /\ busRet = PeripheralByte(call.reg))

\* readByte returned the byte written to the mode register before
C14_Witness ==
    /\ ReadByteDone
    /\ call.reg = HMC5883L_REGISTER_MODE
    /\ regs[HMC5883L_REGISTER_MODE] = 129
    /\ busRet = 129
    /\ got = <<129>>
    /\ pending = <<>>

\* a readTwoBytes call made on its own has returned and nothing was called since
ReadTwoBytesDone == lastOp = "readTwoBytes" /\ pc = "idle"

\* the value the claim names for the bytes b1, b2 received in that order
ClaimedValue(lsb, b1, b2) ==
    LET high == IF lsb THEN b2 ELSE b1
        low  == IF lsb THEN b1 ELSE b2
        v    == high * 256 + low
    IN  IF v >= 32768 THEN v - 65536 ELSE v

\* C15: for the two bytes b1, b2 received in that order readTwoBytes returns
\* the signed 16-bit value of (high << 8) | low, in -32768..32767, where b1 is
\* the low byte when the LSB flag is true and the high byte when it is false.
C15_FlagTrueReadsLowByteFirst ==
    (ReadTwoBytesDone /\ ~underrun) =>
        /\ busRet \in -32768..32767
        /\ busRet = ClaimedValue(call.lsb, got[1], got[2])

\* what the code does: the same value with the roles of the flag exchanged
C15_FlagTrueReadsHighByteFirst ==
    ReadTwoBytesDone =>
        /\ busRet \in -32768..32767
        /\ busRet = ClaimedValue(~call.lsb, got[1], got[2])

\* C17: readTwoBytes, called on its own or by getData, never executes a
\* read() while fewer bytes are available than it has still to consume.
C17_NoReadRunsShort ==
    call.op \in {"readTwoBytes", "getData"} => ~underrun

----------------------------------------------------------------------------
(* The runs of the sketch's loop: calibrate, and scale what was read *)

\* the sketch's all-zero seed and a seed around zero
LoopSeeds ==
    { Seed(Bounds(0, 0, 0, 0, 0, 0), AngZero),
      Seed(Bounds(-1, -1, -1, 1, 1, 1), AngZero) }

\* the sensor at rest and two opposite samples
LoopSamples == {Sample(0, 0, 0), Sample(1, -1, 1), Sample(-1, 1, -1)}

NextLoop ==
    \/ \E seed \in LoopSeeds : SetCalibration(seed)
    \/ \E raw \in LoopSamples : Calibration(raw, 0, 0)
    \/ \E raw \in LoopSamples : ScaleData(raw)
    \/ \E d \in TickSteps : Tick(d)

SpecLoop == InitCal /\ [][NextLoop]_vars

----------------------------------------------------------------------------
(* Claims about the sketch's loop, checked under SpecLoop *)

\* the last calibration call returned true and no setCalibration followed it
ReportedConverged == calls > 0 /\ calRet

\* C16: whenever a calibration call has returned true, from the constructed
\* state or after any seed, every axis has a nonzero divisor (|max|+|min|)/2,
\* and a scaleData call made then divides by zero on no axis.
C16_NonzeroDivisorOnceConverged ==
    ReportedConverged =>
        /\ \A a \in Axes : Abs(MaxOf(settings, a)) + Abs(MinOf(settings, a)) # 0
        /\ lastOp = "scaleData" => \A a \in Axes : ScaledOf(data, a)[2] > 0

\* the same failure without any seed: a sensor at rest on the constructed device
C16_AtRestFromConstruction ==
    (ReportedConverged /\ ~seeded) =>
        \A a \in Axes : Abs(MaxOf(settings, a)) + Abs(MinOf(settings, a)) # 0

\* the sketch's run: the all-zero seed, a calibration call that returned true
\* on a sensor at rest, and a scaleData whose results are all 0/0
C16_Example ==
    /\ ReportedConverged
    /\ seeded
    /\ lastOp = "scaleData"
    /\ SameBounds(settings, Bounds(0, 0, 0, 0, 0, 0))
    /\ \A a \in Axes : RIsNaN(ScaledOf(data, a))

============================================================================
